---- MODULE Spec2Model ----
(***************************************************************************)
(* A model of src/src/lib.rs: an embedded columnar store.  A Database owns *)
(* a backing file and an ordered list of Tables; a Table is a list of      *)
(* Column schemas (each with its Index) and a map from column name to      *)
(* ColumnData.                                                             *)
(*                                                                         *)
(* Texts (Rust Strings) are sequences of one-character strings, so that    *)
(* str::parse is computed character by character.                          *)
(***************************************************************************)
EXTENDS Integers, Sequences, FiniteSets, TLC

VARIABLES
    tables,   \* Database.tables of the live instance (<<>> when there is none)
    file,     \* the backing file at Database.path: [exists, bytes]
    db,       \* "none": no instance; "open": a live Database; "panicked": a call panicked
    ret,      \* what the last call returned: [op, status, err, data]
    flushed   \* history: the table list at the last successful flush of the path

vars == <<tables, file, db, ret, flushed>>

----------------------------------------------------------------------------
(* Bounds of the model *)

MaxTables == 2     \* tables registered in one Database
MaxCells == 2      \* values stored over all ColumnData of a Database
MaxArgs == 2       \* length of the column-name and value lists of one call
MaxFlushes == 2    \* snapshots in the backing file at one time
MaxPos == 1        \* largest row position passed to search_idx

(* i32::MIN and i32::MAX *)
I32Max == 2147483647
I32Min == (0 - I32Max) - 1

----------------------------------------------------------------------------
(* Inputs *)

Digits == {"0", "1", "2", "3", "4", "5", "6", "7", "8", "9"}

DigitVal(c) ==
    CASE c = "0" -> 0 [] c = "1" -> 1 [] c = "2" -> 2 [] c = "3" -> 3
      [] c = "4" -> 4 [] c = "5" -> 5 [] c = "6" -> 6 [] c = "7" -> 7
      [] c = "8" -> 8 [] c = "9" -> 9

Texts == { <<"+", "7">>, <<"-", "3">>, <<"x">> }

TableNames == { "people", "pets" }
NoTable == "ghost"            \* a table name that is never registered
ColNames == { "name", "age" }
NoCol == "nope"               \* a column name that is in no schema

SeqsUpTo(S, n) == UNION { [1..k -> S] : k \in 0..n }

----------------------------------------------------------------------------
(* str::parse::<i32>: an optional sign, then one or more decimal digits,  *)
(* accumulated with overflow checks.                                       *)

(* i32::checked_mul(10), then checked_add or checked_sub of the digit *)
CheckedMul10(acc) ==
    IF acc > I32Max \div 10 \/ acc < 0 - (I32Max \div 10)
    THEN [ok |-> FALSE, val |-> 0]
    ELSE [ok |-> TRUE, val |-> acc * 10]

CheckedAdd(x, d) ==
    IF x > I32Max - d THEN [ok |-> FALSE, val |-> 0] ELSE [ok |-> TRUE, val |-> x + d]

CheckedSub(x, d) ==
    IF x < I32Min + d THEN [ok |-> FALSE, val |-> 0] ELSE [ok |-> TRUE, val |-> x - d]

RECURSIVE ParseDigits(_, _, _, _)
ParseDigits(s, i, acc, positive) ==
    IF i > Len(s) THEN [ok |-> TRUE, val |-> acc]
    ELSE IF s[i] \notin Digits THEN [ok |-> FALSE, val |-> 0]
    ELSE LET mul  == CheckedMul10(acc)
             next == IF ~mul.ok THEN mul
                     ELSE IF positive THEN CheckedAdd(mul.val, DigitVal(s[i]))
                     ELSE CheckedSub(mul.val, DigitVal(s[i]))
         IN  IF ~next.ok THEN [ok |-> FALSE, val |-> 0]
             ELSE ParseDigits(s, i + 1, next.val, positive)

ParseI32(s) ==
    IF Len(s) = 0 THEN [ok |-> FALSE, val |-> 0]
    ELSE IF s[1] \in {"+", "-"} /\ Len(s) = 1 THEN [ok |-> FALSE, val |-> 0]
    ELSE IF s[1] = "+" THEN ParseDigits(s, 2, 0, TRUE)
    ELSE IF s[1] = "-" THEN ParseDigits(s, 2, 0, FALSE)
    ELSE ParseDigits(s, 1, 0, TRUE)

(* str::parse::<f64> on texts of signs, digits, "." and letters that are   *)
(* no part of a number: an optional sign, digits with an optional          *)
(* fraction, at least one digit.  The value is kept as m * 10^-e with no   *)
(* trailing zero in the fraction, so that equal numbers are equal values.  *)

RECURSIVE ScanDecimal(_, _, _, _, _, _)
ScanDecimal(s, i, m, e, dot, nd) ==
    IF i > Len(s) THEN [ok |-> nd > 0, m |-> m, e |-> e]
    ELSE IF s[i] \in Digits
         THEN ScanDecimal(s, i + 1, m * 10 + DigitVal(s[i]),
                          IF dot THEN e + 1 ELSE e, dot, nd + 1)
    ELSE IF s[i] = "." /\ ~dot THEN ScanDecimal(s, i + 1, m, e, TRUE, nd)
    ELSE [ok |-> FALSE, m |-> 0, e |-> 0]

RECURSIVE Normal(_, _)
Normal(m, e) ==
    IF m = 0 THEN [m |-> 0, e |-> 0]
    ELSE IF e > 0 /\ m % 10 = 0 THEN Normal(m \div 10, e - 1)
    ELSE [m |-> m, e |-> e]

ParseF64(s) ==
    LET neg  == Len(s) > 0 /\ s[1] = "-"
        from == IF Len(s) > 0 /\ s[1] \in {"+", "-"} THEN 2 ELSE 1
        d    == ScanDecimal(s, from, 0, 0, FALSE, 0)
        n    == Normal(d.m, d.e)
    IN  IF ~d.ok THEN [ok |-> FALSE, val |-> [m |-> 0, e |-> 0]]
        ELSE [ok |-> TRUE,
              val |-> [m |-> IF neg THEN 0 - n.m ELSE n.m, e |-> n.e]]

----------------------------------------------------------------------------
(* The data model *)

EmptyMap == [k \in {} |-> 0]

(* Column::new: the index follows the kind alone; is_indexed is only stored *)
NewIndex(kind) ==
    CASE kind = "Int" -> [kind |-> "Int", map |-> EmptyMap]
      [] kind = "Str" -> [kind |-> "Str", map |-> EmptyMap]
      [] OTHER        -> [kind |-> "None", map |-> EmptyMap]

ColumnNew(name, kind, is_indexed) ==
    [name |-> name, kind |-> kind, index |-> NewIndex(kind),
     is_indexed |-> is_indexed]

(* ColumnData, one variant per DataType, and its methods *)
EmptyData(kind) == [kind |-> kind, vec |-> <<>>]

Size(row) == Len(row.vec)

(* get_from_idx: vec[idx] panics when idx is out of bounds *)
InBounds(row, idx) == idx < Len(row.vec)

GetFromIdx(row, idx) == [t |-> row.kind, v |-> row.vec[idx + 1]]

(* among columns of the same name, the first one *)
FirstCol(cols, name) ==
    cols[CHOOSE i \in 1..Len(cols) :
            /\ cols[i].name = name
            /\ \A j \in 1..(i - 1) : cols[j].name # name]

(* Table::new: HashMap::insert per column in order, so among columns of the *)
(* same name the last one decides the ColumnData                           *)
LastCol(cols, name) ==
    cols[CHOOSE i \in 1..Len(cols) :
            /\ cols[i].name = name
            /\ \A j \in (i + 1)..Len(cols) : cols[j].name # name]

TableNew(name, cols) ==
    [name |-> name,
     cols |-> cols,
     rows |-> [n \in { cols[i].name : i \in 1..Len(cols) } |->
                  EmptyData(LastCol(cols, n).kind)]]

(* iter().find(|x| x.name == name): the position of the first match, 0 if none *)
Find(seq, name) ==
    IF \E i \in 1..Len(seq) : seq[i].name = name
    THEN CHOOSE i \in 1..Len(seq) :
            /\ seq[i].name = name
            /\ \A j \in 1..(i - 1) : seq[j].name # name
    ELSE 0

(* BTreeMap::insert and BTreeMap::get *)
MapInsert(map, k, p) ==
    [x \in (DOMAIN map) \cup {k} |-> IF x = k THEN p ELSE map[x]]

Some(p) == << [t |-> "Pos", v |-> p] >>
None == <<>>

MapGet(map, k) == IF k \in DOMAIN map THEN Some(map[k]) ELSE None

(* Index::get that takes a key text that is no integer for an absent key *)
IndexGetLenient(index, key) ==
    CASE index.kind = "Int" ->
            [status |-> "Ok", err |-> "",
             data |-> IF ParseI32(key).ok
                      THEN MapGet(index.map, ParseI32(key).val) ELSE None]
      [] index.kind = "Str" ->
            [status |-> "Ok", err |-> "", data |-> MapGet(index.map, key)]
      [] OTHER ->
            [status |-> "Ok", err |-> "", data |-> None]

(* Index::get *)
IndexGet(index, key) ==
    CASE index.kind = "Int" ->
            IF ParseI32(key).ok
            THEN [status |-> "Ok", err |-> "",
                  data |-> MapGet(index.map, ParseI32(key).val)]
            ELSE [status |-> "Err", err |-> "InvalidIndex", data |-> None]
      [] index.kind = "Str" ->
            [status |-> "Ok", err |-> "", data |-> MapGet(index.map, key)]
      [] OTHER ->
            [status |-> "Ok", err |-> "", data |-> None]

----------------------------------------------------------------------------
(* Database::insert *)

Push(row, kind, val) ==
    IF row.kind = kind THEN [row EXCEPT !.vec = Append(@, val)] ELSE row

(* the index entry written with the length after the push *)
IndexPutAfter(index, kind, val, size) ==
    IF index.kind = kind THEN [index EXCEPT !.map = MapInsert(@, val, size + 1)]
    ELSE index

(* the index entry kept at the first position of a key *)
IndexPutFirst(index, kind, val, size) ==
    IF index.kind = kind /\ val \notin DOMAIN index.map
    THEN [index EXCEPT !.map = MapInsert(@, val, size)]
    ELSE index

IndexPut(index, kind, val, size) ==
    IF index.kind = kind THEN [index EXCEPT !.map = MapInsert(@, val, size)]
    ELSE index

(* the body of the loop for one (column name, value text) pair whose column *)
(* is at position c of table.cols                                          *)
InsertInto(table, c, val) ==
    LET col  == table.cols[c]
        row  == table.rows[col.name]
        size == Size(row)
    IN  IF col.name \notin DOMAIN table.rows THEN [status |-> "Ok", table |-> table]
        ELSE CASE col.kind = "Int" ->
                    LET p == ParseI32(val)
                    IN  IF ~p.ok THEN [status |-> "panic", table |-> table]
                        ELSE [status |-> "Ok",
                              table |-> [table EXCEPT
                                 !.rows[col.name] = Push(row, "Int", p.val),
                                 !.cols[c].index = IndexPut(@, "Int", p.val, size)]]
               [] col.kind = "Float" ->
                    LET p == ParseF64(val)
                    IN  IF ~p.ok THEN [status |-> "panic", table |-> table]
                        ELSE [status |-> "Ok",
                              table |-> [table EXCEPT
                                 !.rows[col.name] = Push(row, "Float", p.val)]]
               [] col.kind = "Str" ->
                    [status |-> "Ok",
                     table |-> [table EXCEPT
                        !.rows[col.name] = Push(row, "Str", val),
                        !.cols[c].index = IndexPut(@, "Str", val, size)]]

(* the loop over cols zipped with values, from pair i on: it stops at the  *)
(* shorter list, at the first unknown column and at the first panic        *)
RECURSIVE InsertLoop(_, _, _, _)
InsertLoop(table, cols, values, i) ==
    IF i > Len(cols) \/ i > Len(values)
    THEN [status |-> "Ok", err |-> "", table |-> table]
    ELSE LET c == Find(table.cols, cols[i])
         IN  IF c = 0
             THEN [status |-> "Err", err |-> "InvalidColumn", table |-> table]
             ELSE LET r == InsertInto(table, c, values[i])
                  IN  IF r.status = "panic"
                      THEN [status |-> "panic", err |-> "", table |-> r.table]
                      ELSE InsertLoop(r.table, cols, values, i + 1)

DbInsert(tbls, cols, values, table) ==
    LET t == Find(tbls, table)
    IN  IF t = 0
        THEN [status |-> "Err", err |-> "InvalidTable", tables |-> tbls]
        ELSE LET r == InsertLoop(tbls[t], cols, values, 1)
             IN  [status |-> r.status, err |-> r.err,
                  tables |-> [tbls EXCEPT ![t] = r.table]]

----------------------------------------------------------------------------
(* Database::search_idx *)

(* the loop that gives up at the first name that is no key of rows, with   *)
(* what it has read so far                                                 *)
RECURSIVE SearchLoopStops(_, _, _, _)
SearchLoopStops(table, s_col, idx, i) ==
    IF i > Len(s_col) THEN [status |-> "Ok", data |-> <<>>]
    ELSE IF s_col[i] \notin DOMAIN table.rows
         THEN [status |-> "Ok", data |-> <<>>]
    ELSE IF ~InBounds(table.rows[s_col[i]], idx)
         THEN [status |-> "panic", data |-> <<>>]
    ELSE LET rest == SearchLoopStops(table, s_col, idx, i + 1)
         IN  IF rest.status = "panic" THEN rest
             ELSE [status |-> "Ok",
                   data |-> <<GetFromIdx(table.rows[s_col[i]], idx)>> \o rest.data]

RECURSIVE SearchLoop(_, _, _, _)
SearchLoop(table, s_col, idx, i) ==
    IF i > Len(s_col) THEN [status |-> "Ok", data |-> <<>>]
    ELSE IF s_col[i] \notin DOMAIN table.rows
         THEN SearchLoop(table, s_col, idx, i + 1)
    ELSE IF ~InBounds(table.rows[s_col[i]], idx)
         THEN [status |-> "panic", data |-> <<>>]
    ELSE LET rest == SearchLoop(table, s_col, idx, i + 1)
         IN  IF rest.status = "panic" THEN rest
             ELSE [status |-> "Ok",
                   data |-> <<GetFromIdx(table.rows[s_col[i]], idx)>> \o rest.data]

(* search_idx that treats an unknown table like an unknown column *)
DbSearchIdxLenient(tbls, s_col, idx, table) ==
    LET t == Find(tbls, table)
    IN  IF t = 0 THEN [status |-> "Ok", err |-> "", data |-> <<>>]
        ELSE LET r == SearchLoop(tbls[t], s_col, idx, 1)
             IN  [status |-> r.status, err |-> "", data |-> r.data]

DbSearchIdx(tbls, s_col, idx, table) ==
    LET t == Find(tbls, table)
    IN  IF t = 0 THEN [status |-> "Err", err |-> "InvalidTable", data |-> <<>>]
        ELSE LET r == SearchLoop(tbls[t], s_col, idx, 1)
             IN  [status |-> r.status, err |-> "", data |-> r.data]

(* insert_table without the lookup by name *)
DbInsertTableUnchecked(tbls, table) ==
    [status |-> "Ok", err |-> "", tables |-> Append(tbls, table)]

(* insert_table that puts the new table in front of the list *)
DbInsertTableFront(tbls, table) ==
    IF Find(tbls, table.name) # 0
    THEN [status |-> "Err", err |-> "TableAlreadyExists", tables |-> tbls]
    ELSE [status |-> "Ok", err |-> "", tables |-> <<table>> \o tbls]

(* Database::insert_table *)
DbInsertTable(tbls, table) ==
    IF Find(tbls, table.name) # 0
    THEN [status |-> "Err", err |-> "TableAlreadyExists", tables |-> tbls]
    ELSE [status |-> "Ok", err |-> "", tables |-> Append(tbls, table)]

----------------------------------------------------------------------------
(* Persistence.  bincode::serialize writes the table list as one           *)
(* self-delimiting blob; File::create truncates the file and leaves the    *)
(* handle at offset 0; write_all writes at the handle's offset, which is   *)
(* the end of what this handle has written; bincode::deserialize decodes   *)
(* one value from the start of the bytes and ignores what follows it.      *)

NoFile == [exists |-> FALSE, bytes |-> <<>>]

Serialize(tbls) == << tbls >>

WriteAll(f, blob) == [f EXCEPT !.bytes = @ \o blob]

Create(f) == [exists |-> TRUE, bytes |-> <<>>]

Deserialize(bytes) ==
    IF Len(bytes) = 0 THEN [ok |-> FALSE, tables |-> <<>>]
    ELSE [ok |-> TRUE, tables |-> bytes[1]]

----------------------------------------------------------------------------
(* The calls, as actions *)

Cells(tbls) ==
    LET RECURSIVE Sum(_, _)
        Sum(f, S) == IF S = {} THEN 0
                     ELSE LET x == CHOOSE x \in S : TRUE
                          IN  Len(f[x].vec) + Sum(f, S \ {x})
        RECURSIVE All(_)
        All(i) == IF i > Len(tbls) THEN 0
                  ELSE Sum(tbls[i].rows, DOMAIN tbls[i].rows) + All(i + 1)
    IN  All(1)

Returned(op, r) ==
    [op |-> op, status |-> r.status, err |-> r.err, data |-> r.data]

AfterCall(status) == IF status = "panic" THEN "panicked" ELSE "open"

(* Database::new.  A file that does not deserialize panics before any      *)
(* instance exists, so nothing is created and nothing is dropped.          *)
New ==
    /\ db = "none"
    /\ IF file.exists /\ ~Deserialize(file.bytes).ok
       THEN /\ ret' = [op |-> "new", status |-> "panic", err |-> "", data |-> <<>>]
            /\ UNCHANGED <<tables, file, db>>
       ELSE /\ db' = "open"
            /\ tables' = IF file.exists THEN Deserialize(file.bytes).tables ELSE <<>>
            /\ file' = Create(file)
            /\ ret' = [op |-> "new", status |-> "Ok", err |-> "", data |-> <<>>]
    /\ UNCHANGED flushed

InsertTable(table) ==
    /\ db = "open"
    /\ LET r == DbInsertTable(tables, table)
       IN  /\ Len(r.tables) <= MaxTables
           /\ tables' = r.tables
           /\ ret' = [op |-> "insert_table", status |-> r.status, err |-> r.err,
                      data |-> <<>>]
    /\ UNCHANGED <<file, db, flushed>>

Insert(cols, values, table) ==
    /\ db = "open"
    /\ Cells(tables) + Len(values) <= MaxCells
    /\ LET r == DbInsert(tables, cols, values, table)
       IN  /\ tables' = r.tables
           /\ db' = AfterCall(r.status)
           /\ ret' = [op |-> "insert", status |-> r.status, err |-> r.err,
                      data |-> <<>>]
    /\ UNCHANGED <<file, flushed>>

SearchIdx(s_col, idx, table) ==
    /\ db = "open"
    /\ LET r == DbSearchIdx(tables, s_col, idx, table)
       IN  /\ db' = AfterCall(r.status)
           /\ ret' = Returned("search_idx", r)
    /\ UNCHANGED <<tables, file, flushed>>

(* get_table(table), then get_index().get(key) on its column at position c *)
GetIndex(table, c, key) ==
    /\ db = "open"
    /\ Find(tables, table) # 0
    /\ c \in 1..Len(tables[Find(tables, table)].cols)
    /\ ret' = Returned("get", IndexGet(tables[Find(tables, table)].cols[c].index, key))
    /\ UNCHANGED <<tables, file, db, flushed>>

(* Database::flush: write_all, then sync_data; either may fail, and then   *)
(* nothing is taken to have reached the file                               *)
Flush(io_ok) ==
    /\ db = "open"
    /\ Len(file.bytes) < MaxFlushes
    /\ file' = IF io_ok THEN WriteAll(file, Serialize(tables)) ELSE file
    /\ flushed' = IF io_ok THEN [some |-> TRUE, tables |-> tables] ELSE flushed
    /\ ret' = IF io_ok
              THEN [op |-> "flush", status |-> "Ok", err |-> "", data |-> <<>>]
              ELSE [op |-> "flush", status |-> "Err", err |-> "FileError", data |-> <<>>]
    /\ UNCHANGED <<tables, db>>

(* Drop for Database: flush, its error only printed; also run when a panic *)
(* unwinds past the instance                                               *)
Drop(io_ok) ==
    /\ db \in {"open", "panicked"}
    /\ file' = IF io_ok THEN WriteAll(file, Serialize(tables)) ELSE file
    /\ flushed' = IF io_ok THEN [some |-> TRUE, tables |-> tables] ELSE flushed
    /\ db' = "none"
    /\ tables' = <<>>
    /\ ret' = [op |-> "drop", status |-> IF io_ok THEN "Ok" ELSE "Err",
               err |-> IF io_ok THEN "" ELSE "FileError", data |-> <<>>]

----------------------------------------------------------------------------
(* Inputs of the calls *)

People == << ColumnNew("name", "Str", TRUE), ColumnNew("age", "Int", FALSE) >>
Scores == << ColumnNew("age", "Int", TRUE), ColumnNew("name", "Float", TRUE) >>
Twice  == << ColumnNew("name", "Str", TRUE), ColumnNew("name", "Str", TRUE) >>
Mixed  == << ColumnNew("name", "Int", TRUE), ColumnNew("name", "Str", FALSE) >>

NewTables ==
    { TableNew("people", People), TableNew("people", Twice),
      TableNew("pets", Scores), TableNew("pets", Mixed) }

ColSeqs == SeqsUpTo(ColNames \cup {NoCol}, MaxArgs)
ValSeqs == SeqsUpTo(Texts, MaxArgs)

(* the two lists of one insert call: values may be one short of the names *)
InsertArgs ==
    { a \in ColSeqs \X ValSeqs : Len(a[2]) \in {Len(a[1]), Len(a[1]) - 1} }

Init ==
    /\ tables = <<>>
    /\ file = Create(NoFile)
    /\ db = "open"
    /\ ret = [op |-> "new", status |-> "Ok", err |-> "", data |-> <<>>]
    /\ flushed = [some |-> FALSE, tables |-> <<>>]

(* the argument lists that Insert's bound on the stored values admits *)
Room == MaxCells - Cells(tables)

ArgsWithin(args, room) == { a \in args : Len(a[2]) <= room }

(* Registration and insertion, with every pairing of names and values *)
Next ==
    \/ \E t \in NewTables : InsertTable(t)
    \/ \E a \in ArgsWithin(InsertArgs, Room), t \in TableNames \cup {NoTable} :
          Insert(a[1], a[2], t)

Spec == Init /\ [][Next]_vars

(* The lookups, on tables filled one value at a time (which reaches every *)
(* table list that longer calls reach, a call being a loop over its pairs) *)
QueryArgs ==
    { a \in InsertArgs :
        Len(a[1]) = 1 /\ Len(a[2]) = 1 /\ a[2][1] \in { <<"+", "7">>, <<"x">> } }

NextQuery ==
    \/ \E t \in NewTables : InsertTable(t)
    \/ \E a \in ArgsWithin(QueryArgs, Room), t \in TableNames \cup {NoTable} :
          Insert(a[1], a[2], t)
    \/ \E c \in ColSeqs, p \in 0..MaxPos, t \in TableNames \cup {NoTable} :
          SearchIdx(c, p, t)
    \/ \E t \in TableNames, c \in 1..2, k \in Texts : GetIndex(t, c, k)

SpecQuery == Init /\ [][NextQuery]_vars

(* The lifecycle: instances opened on one path one after the other, each   *)
(* registering the test's table, inserting rows, flushing and being        *)
(* dropped (also by a panic that unwinds).                                 *)
PersistTables == { TableNew("people", People) }

PersistArgs ==
    { << <<"name">>, << <<"x">> >> >>,
      << <<"name", "age">>, << <<"x">>, <<"+", "7">> >> >>,
      << <<"name", "age">>, << <<"-", "3">>, <<"x">> >> >> }

NextPersist ==
    \/ New
    \/ \E t \in PersistTables : InsertTable(t)
    \/ \E a \in PersistArgs : Insert(a[1], a[2], "people")
    \/ \E io_ok \in BOOLEAN : Flush(io_ok)
    \/ \E io_ok \in BOOLEAN : Drop(io_ok)

SpecPersist == Init /\ [][NextPersist]_vars

(* One instance in use: tables registered, single values inserted, rows    *)
(* read and the instance flushed, in any order.                            *)
SessionArgs ==
    { << <<"name">>, << <<"x">> >> >>, << <<"age">>, << <<"+", "7">> >> >> }

SessionQueries == { <<"name">>, <<NoCol, "age">> }

NextSession ==
    \/ \E t \in NewTables : InsertTable(t)
    \/ \E a \in ArgsWithin(SessionArgs, Room), t \in TableNames \cup {NoTable} :
          Insert(a[1], a[2], t)
    \/ \E c \in SessionQueries, p \in 0..MaxPos, t \in TableNames \cup {NoTable} :
          SearchIdx(c, p, t)
    \/ \E io_ok \in BOOLEAN : Flush(io_ok)

SpecSession == Init /\ [][NextSession]_vars

----------------------------------------------------------------------------
(* Notions the properties below are stated with *)

Names(seq) == { seq[i].name : i \in 1..Len(seq) }

DistinctNames(seq) ==
    \A i, j \in 1..Len(seq) : seq[i].name = seq[j].name => i = j

Lengths(table) == { Size(table.rows[n]) : n \in DOMAIN table.rows }

Aligned(table) == Cardinality(Lengths(table)) <= 1

(* the Value a text becomes in a column of the given kind *)
Converted(kind, text) ==
    CASE kind = "Int"   -> [t |-> "Int", v |-> ParseI32(text).val]
      [] kind = "Float" -> [t |-> "Float", v |-> ParseF64(text).val]
      [] kind = "Str"   -> [t |-> "Str", v |-> text]

(* the positions (0-based) of a column's ColumnData that hold the value *)
Positions(row, kind, val) ==
    IF row.kind # kind THEN {}
    ELSE { p \in 0..(Len(row.vec) - 1) : row.vec[p + 1] = val }

Max(S) == CHOOSE m \in S : \A x \in S : x <= m

(* equality of two lists of Values, the tags compared before the payloads *)
SameValues(a, b) ==
    /\ Len(a) = Len(b)
    /\ \A i \in 1..Len(a) : a[i].t = b[i].t /\ a[i].v = b[i].v

----------------------------------------------------------------------------
(* C1: Alignment invariant: whenever a call has returned (Ok or an error),  *)
(* all ColumnData of every table have the same length.                     *)
C1_Alignment ==
    db = "open" => \A i \in 1..Len(tables) : Aligned(tables[i])

(* C2: insert_table of a table whose name is already in the list fails     *)
(* with TableAlreadyExists and leaves the table list as it was.            *)
C2_DuplicateRejected ==
    [][ret'.op = "insert_table" =>
        \A t \in NewTables :
          (InsertTable(t) /\ t.name \in Names(tables))
              => /\ ret'.status = "Err"
                 /\ ret'.err = "TableAlreadyExists"
                 /\ tables' = tables]_vars

C2_Witness ==
    /\ ret.op = "insert_table"
    /\ ret.err = "TableAlreadyExists"
    /\ Cells(tables) > 0

(* C3: when insert(column_names, text_values, table) returns Ok (the lists *)
(* equally long, the table's column names distinct), search_idx of the     *)
(* same names at the position just inserted (the length a named column had *)
(* before the call) returns the supplied values, each converted to its     *)
(* column's kind, in the order of column_names.                            *)
C3_RoundTrip ==
    [][ret'.op = "insert" /\ ret'.status = "Ok" =>
        \A a \in InsertArgs, n \in TableNames :
          (/\ Len(a[1]) = Len(a[2])
           /\ Len(a[1]) > 0
           /\ Insert(a[1], a[2], n)
           /\ DistinctNames(tables[Find(tables, n)].cols))
          => LET t == tables[Find(tables, n)]
                 expected ==
                     [i \in 1..Len(a[1]) |->
                         Converted(t.cols[Find(t.cols, a[1][i])].kind, a[2][i])]
             IN  \E i \in 1..Len(a[1]) :
                    LET got == DbSearchIdx(tables', a[1], Size(t.rows[a[1][i]]), n)
                    IN  got.status = "Ok" /\ SameValues(got.data, expected)]_vars

(* C4: for an indexed Int or Str column of a table whose column names are  *)
(* distinct, Index::get of a key returns the position of the most recent   *)
(* insert of that key (the last position of the ColumnData holding it),    *)
(* and not-found for a key never inserted.                                 *)
LastWriteWins(table, col) ==
    \A k \in Texts :
        (col.kind = "Str" \/ ParseI32(k).ok) =>
            LET val == Converted(col.kind, k).v
                at  == Positions(table.rows[col.name], col.kind, val)
                got == IndexGet(col.index, k)
            IN  /\ got.status = "Ok"
                /\ SameValues(got.data, IF at = {} THEN None ELSE Some(Max(at)))

C4_LastWriteWins ==
    \A i \in 1..Len(tables) :
        DistinctNames(tables[i].cols) =>
            \A c \in 1..Len(tables[i].cols) :
                LET col == tables[i].cols[c]
                IN  (col.is_indexed /\ col.kind \in {"Int", "Str"})
                        => LastWriteWins(tables[i], col)

(* C4 as first stated, for every table *)
C4_AnyTable ==
    \A i \in 1..Len(tables) :
        \A c \in 1..Len(tables[i].cols) :
            LET col == tables[i].cols[c]
            IN  (col.is_indexed /\ col.kind \in {"Int", "Str"})
                    => LastWriteWins(tables[i], col)

C4_Witness ==
    \E i \in 1..Len(tables) :
        /\ DistinctNames(tables[i].cols)
        /\ \E c \in 1..Len(tables[i].cols) :
              LET col == tables[i].cols[c]
                  row == tables[i].rows[col.name]
              IN  /\ col.is_indexed
                  /\ col.kind \in {"Int", "Str"}
                  /\ Len(row.vec) = 2
                  /\ row.vec[1] = row.vec[2]
                  /\ SameValues(IndexGet(col.index, <<"+", "7">>).data, Some(1))

(* C5: a Database opened on a path that has been flushed holds the table   *)
(* list of the most recent successful flush (explicit, or at disposal).    *)
C5_RoundTrip ==
    (ret.op = "new" /\ ret.status = "Ok" /\ flushed.some)
        => tables = flushed.tables

(* C6: after a successful flush the backing file holds one snapshot, the   *)
(* serialization of the table list just flushed, and nothing else.         *)
C6_FlushOverwrites ==
    (ret.op \in {"flush", "drop"} /\ ret.status = "Ok")
        => file.bytes = Serialize(flushed.tables)

(* C7: an insert that fails with InvalidColumn leaves every ColumnData and *)
(* every Index of the table as before the call.                            *)
C7_AllOrNothing ==
    [][(ret'.op = "insert" /\ ret'.err = "InvalidColumn") => tables' = tables]_vars

(* C8: for a table name that is not in the table list, insert and          *)
(* search_idx fail with InvalidTable whatever else is passed, and a call   *)
(* that fails with InvalidTable leaves the database as it was.             *)
C8_UnknownTable ==
    /\ [](\A n \in TableNames \cup {NoTable} :
            n \notin Names(tables) =>
               /\ \A a \in InsertArgs :
                     LET r == DbInsert(tables, a[1], a[2], n)
                     IN  r.status = "Err" /\ r.err = "InvalidTable" /\ r.tables = tables
               /\ \A c \in ColSeqs, p \in 0..MaxPos :
                     LET r == DbSearchIdx(tables, c, p, n)
                     IN  r.status = "Err" /\ r.err = "InvalidTable")
    /\ [][ret'.err = "InvalidTable" =>
            /\ ret'.status = "Err"
            /\ UNCHANGED <<tables, file, db>>]_vars

C8_Witness ==
    /\ ret.op = "search_idx"
    /\ ret.err = "InvalidTable"
    /\ Cells(tables) > 0

(* C9: a column with is_indexed carries the index variant of its kind, a   *)
(* column without carries no index; an Int index goes with an Int column,  *)
(* a Str index with a Str column, and a Float column carries no index.     *)
C9_IndexTag ==
    \A i \in 1..Len(tables) :
        \A c \in 1..Len(tables[i].cols) :
            LET col == tables[i].cols[c]
            IN  /\ (col.is_indexed /\ col.kind \in {"Int", "Str"})
                      => col.index.kind = col.kind
                /\ ~col.is_indexed => col.index.kind = "None"
                /\ col.index.kind = "Int" => col.kind = "Int"
                /\ col.index.kind = "Str" => col.kind = "Str"
                /\ col.kind = "Float" => col.index.kind = "None"

(* C10: Index::get on an Int index fails with InvalidIndex for a key text  *)
(* that is no signed 32-bit integer and else returns the position stored   *)
(* for the integer, or not-found; on a Str index it looks the text up as   *)
(* it is and never fails; with no index it returns not-found; the index is *)
(* left unchanged.  (Key texts of at most nine digits, which cannot        *)
(* overflow.)                                                              *)
Unsigned(s) == IF Len(s) > 0 /\ s[1] \in {"+", "-"} THEN Tail(s) ELSE s

IsI32Text(s) ==
    /\ Len(Unsigned(s)) \in 1..9
    /\ \A i \in 1..Len(Unsigned(s)) : Unsigned(s)[i] \in Digits

RECURSIVE Number(_)
Number(s) ==
    IF Len(s) = 0 THEN 0
    ELSE Number(SubSeq(s, 1, Len(s) - 1)) * 10 + DigitVal(s[Len(s)])

IntOf(s) == IF s[1] = "-" THEN 0 - Number(Unsigned(s)) ELSE Number(Unsigned(s))

Stored(map, k) == IF k \in DOMAIN map THEN Some(map[k]) ELSE None

GetContract(index, k, r) ==
    CASE index.kind = "Int" ->
            IF IsI32Text(k)
            THEN r.status = "Ok" /\ SameValues(r.data, Stored(index.map, IntOf(k)))
            ELSE r.status = "Err" /\ r.err = "InvalidIndex"
      [] index.kind = "Str" ->
            r.status = "Ok" /\ SameValues(r.data, Stored(index.map, k))
      [] index.kind = "None" ->
            r.status = "Ok" /\ r.data = None

C10_GetContract ==
    [][ret'.op = "get" =>
        \A n \in TableNames, c \in 1..2, k \in Texts :
            GetIndex(n, c, k) =>
                /\ GetContract(tables[Find(tables, n)].cols[c].index, k, ret')
                /\ tables' = tables]_vars

C10_Witness ==
    /\ ret.op = "get"
    /\ ret.err = "InvalidIndex"
    /\ Cells(tables) > 0

(* C11: from a Database opened with an empty table list, after any         *)
(* insert_table and insert calls no two tables of the list have the same   *)
(* name, so get_table(name) identifies at most one table.                  *)
C11_UniqueTableNames ==
    \A n \in TableNames \cup {NoTable} :
        Cardinality({ i \in 1..Len(tables) : tables[i].name = n }) <= 1

C11_Witness ==
    /\ Len(tables) >= 2
    /\ ret.op = "insert_table"
    /\ ret.status = "Err"

(* C12: search_idx on a table of the list, at a position that is in bounds *)
(* for every requested column the table has, returns Ok with one Value per *)
(* requested name that is a key of rows, in the order requested, tagged    *)
(* with its ColumnData's variant, and nothing for the other names: its     *)
(* length is the number of requested names that exist.  A search_idx call  *)
(* leaves the table list and the file as they were.                        *)
Requested(table, s_col) == SelectSeq(s_col, LAMBDA n : n \in DOMAIN table.rows)

PositionInBounds(table, s_col, p) ==
    \A i \in 1..Len(s_col) :
        s_col[i] \in DOMAIN table.rows => p < Len(table.rows[s_col[i]].vec)

ValuesAt(table, names, p) ==
    [i \in 1..Len(names) |->
        [t |-> table.rows[names[i]].kind, v |-> table.rows[names[i]].vec[p + 1]]]

C12_SearchFilters ==
    /\ [](\A i \in 1..Len(tables), c \in ColSeqs, p \in 0..MaxPos :
            PositionInBounds(tables[i], c, p) =>
               LET r == DbSearchIdx(tables, c, p, tables[i].name)
               IN  /\ r.status = "Ok"
                   /\ SameValues(r.data, ValuesAt(tables[i], Requested(tables[i], c), p))
                   /\ Len(r.data) =
                        Cardinality({ k \in 1..Len(c) : c[k] \in DOMAIN tables[i].rows }))
    /\ [][ret'.op = "search_idx" => UNCHANGED <<tables, file>>]_vars

C12_Witness ==
    /\ ret.op = "search_idx"
    /\ ret.status = "Ok"
    /\ Len(ret.data) = 1
    /\ \E i \in 1..Len(tables), c \in ColSeqs, p \in 0..MaxPos :
          /\ PositionInBounds(tables[i], c, p)
          /\ Len(c) = 2
          /\ Len(Requested(tables[i], c)) = 1
          /\ SameValues(ret.data, DbSearchIdx(tables, c, p, tables[i].name).data)

(* C13: insert writes a column's Index only if the column is indexed: the  *)
(* Index of a column created with is_indexed = FALSE never gains an entry, *)
(* whatever has been inserted.                                             *)
C13_UnindexedUntouched ==
    \A i \in 1..Len(tables) :
        \A c \in 1..Len(tables[i].cols) :
            ~tables[i].cols[c].is_indexed
                => DOMAIN tables[i].cols[c].index.map = {}

(* C14: in a table whose column names are pairwise distinct, after any     *)
(* inserts (returning Ok, an error, or panicking), every entry key -> p of *)
(* a column's Index has p below the length of the column's ColumnData,     *)
(* the ColumnData holds key at p, and at no later position.                *)
EntryConsistent(row, index, key) ==
    LET p == index.map[key]
    IN  /\ row.kind = index.kind
        /\ p < Len(row.vec)
        /\ row.vec[p + 1] = key
        /\ \A q \in (p + 1)..(Len(row.vec) - 1) : row.vec[q + 1] # key

C14_IndexConsistent ==
    \A i \in 1..Len(tables) :
        DistinctNames(tables[i].cols) =>
            \A c \in 1..Len(tables[i].cols) :
                LET col == tables[i].cols[c]
                IN  \A key \in DOMAIN col.index.map :
                        EntryConsistent(tables[i].rows[col.name], col.index, key)

C14_Witness ==
    \E i \in 1..Len(tables) :
        /\ DistinctNames(tables[i].cols)
        /\ \E c \in 1..Len(tables[i].cols) :
              LET col == tables[i].cols[c]
              IN  /\ col.kind = "Str"
                  /\ tables[i].rows[col.name].vec = << <<"x">>, <<"x">> >>
                  /\ DOMAIN col.index.map = { <<"x">> }
                  /\ col.index.map[<<"x">>] = 1

(* C15: for a table built by Table::new from any list of columns, when     *)
(* registered and after any inserts, the keys of rows are the column names *)
(* of cols; every ColumnData starts empty; and the ColumnData under a name *)
(* has the variant of the kind of the last column of that name, which is   *)
(* the kind of every column when the column names are pairwise distinct.   *)
KeysAreNames(table) ==
    /\ \A n \in DOMAIN table.rows : \E c \in 1..Len(table.cols) : table.cols[c].name = n
    /\ \A c \in 1..Len(table.cols) : table.cols[c].name \in DOMAIN table.rows

VariantOfLast(table) ==
    \A c \in 1..Len(table.cols) :
        (\A j \in (c + 1)..Len(table.cols) : table.cols[j].name # table.cols[c].name)
            => table.rows[table.cols[c].name].kind = table.cols[c].kind

VariantOfEach(table) ==
    \A c \in 1..Len(table.cols) :
        table.rows[table.cols[c].name].kind = table.cols[c].kind

C15_SchemaStorage ==
    /\ [](\A i \in 1..Len(tables) :
            /\ KeysAreNames(tables[i])
            /\ VariantOfLast(tables[i])
            /\ DistinctNames(tables[i].cols) => VariantOfEach(tables[i]))
    /\ [][(ret'.op = "insert_table" /\ ret'.status = "Ok") =>
            \A n \in DOMAIN tables'[Len(tables')].rows :
                Len(tables'[Len(tables')].rows[n].vec) = 0]_vars

(* C15 as first stated: the variant matches the kind of every column *)
C15_AnyColumns ==
    /\ [](\A i \in 1..Len(tables) :
            /\ KeysAreNames(tables[i])
            /\ VariantOfEach(tables[i]))
    /\ [][(ret'.op = "insert_table" /\ ret'.status = "Ok") =>
            \A n \in DOMAIN tables'[Len(tables')].rows :
                Len(tables'[Len(tables')].rows[n].vec) = 0]_vars

C15_Witness ==
    \E i \in 1..Len(tables) :
        /\ Len(tables[i].cols) = 2
        /\ tables[i].cols[1].name = tables[i].cols[2].name
        /\ tables[i].cols[1].kind # tables[i].cols[2].kind
        /\ DOMAIN tables[i].cols[1].index.map # {}
        /\ ret.op = "insert"

(* C16: once a flush has succeeded on the path, in every state between    *)
(* calls (also right after Database::new has returned and before the new   *)
(* instance has flushed) the backing file deserializes to the table list   *)
(* of the last successful flush.                                           *)
C16_LastFlushSurvives ==
    flushed.some =>
        /\ file.exists
        /\ Deserialize(file.bytes).ok
        /\ Deserialize(file.bytes).tables = flushed.tables

(* C17: insert(column_names, text_values, table) leaves the length and    *)
(* order of the table list, every other table, and the ColumnData and      *)
(* Index of every column of the target table that column_names does not    *)
(* name as they were; when it returns Ok, the ColumnData of each column    *)
(* named exactly once is one entry longer.                                 *)
Times(seq, x) == Cardinality({ k \in 1..Len(seq) : seq[k] = x })

InsertFrame(before, after, names, n) ==
    /\ Len(after) = Len(before)
    /\ \A i \in 1..Len(before) :
          /\ after[i].name = before[i].name
          /\ before[i].name # n => after[i] = before[i]
          /\ before[i].name = n =>
                /\ Len(after[i].cols) = Len(before[i].cols)
                /\ DOMAIN after[i].rows = DOMAIN before[i].rows
                /\ \A c \in 1..Len(before[i].cols) :
                      Times(names, before[i].cols[c].name) = 0 =>
                          /\ after[i].cols[c] = before[i].cols[c]
                          /\ after[i].rows[before[i].cols[c].name] =
                                before[i].rows[before[i].cols[c].name]

InsertGrows(before, after, names, n) ==
    \A i \in 1..Len(before) :
        before[i].name = n =>
            \A c \in 1..Len(before[i].cols) :
                Times(names, before[i].cols[c].name) = 1 =>
                    Len(after[i].rows[before[i].cols[c].name].vec) =
                        Len(before[i].rows[before[i].cols[c].name].vec) + 1

C17_InsertFrame ==
    [][ret'.op = "insert" =>
        \A a \in InsertArgs, n \in TableNames \cup {NoTable} :
            Insert(a[1], a[2], n) =>
                /\ InsertFrame(tables, tables', a[1], n)
                /\ ret'.status = "Ok" => InsertGrows(tables, tables', a[1], n)]_vars

(* C18: the table list is append-only: a successful insert_table adds the *)
(* table at the end of the list, and no insert_table, insert, search_idx   *)
(* or flush call removes or reorders a table: the names of the list before *)
(* a call are a prefix of the names of the list after it (and so of every  *)
(* later list).                                                            *)
NamePrefix(before, after) ==
    /\ Len(before) <= Len(after)
    /\ \A i \in 1..Len(before) : after[i].name = before[i].name

C18_AppendOnly ==
    [][/\ NamePrefix(tables, tables')
       /\ (ret'.op = "insert_table" /\ ret'.status = "Ok") =>
             /\ Len(tables') = Len(tables) + 1
             /\ tables'[Len(tables')] \in NewTables
             /\ \A i \in 1..Len(tables) : tables'[i] = tables[i]
       /\ ret'.op # "insert_table" => Len(tables') = Len(tables)]_vars

C18_Witness ==
    /\ Len(tables) = 2
    /\ Cells(tables) > 0
    /\ ret.op = "flush"
    /\ ret.status = "Ok"
    /\ Len(file.bytes) = 2

====
